---- MODULE Spec2Model ----
(***************************************************************************)
(* Model of rwgame/GameConfig.cpp: the GameConfig settings store, its     *)
(* generic transfer routine parseConfig, and the value codecs.            *)
(*                                                                         *)
(* Texts are sequences of one-character strings, so that the codecs and   *)
(* the INI reader/writer operate on characters as the C++ code does.  A   *)
(* file or an INI text is a sequence of lines (the text split at '\n').   *)
(***************************************************************************)
EXTENDS Integers, Sequences, FiniteSets, TLC

(***************************************************************************)
(* Bounds of the model.                                                    *)
(***************************************************************************)
\* longest text drawn from the codec alphabet in CodecSpec
MaxLen == 3

(***************************************************************************)
(* Character classes and text literals.                                    *)
(***************************************************************************)
\* the characters std::isspace accepts in the "C" locale (no escape exists
\* for the vertical tab, which is left out)
IsSpace == {" ", "\t", "\n", "\r", "\f"}

\* the argument of find_last_not_of in stripComments
StripSet == {" ", "\n", "\r", "\t"}

\* the argument of find_first_of in stripComments
CommentChars == {";", "#"}

Digits == <<"0", "1", "2", "3", "4", "5", "6", "7", "8", "9">>

DigitSet == {Digits[i] : i \in 1..10}

DigitVal(c) == (CHOOSE i \in 1..10 : Digits[i] = c) - 1

\* std::numeric_limits<int>::max(), the range std::stoi enforces
INT_MAX == 2147483647

kGame == <<"g", "a", "m", "e">>

kInput == <<"i", "n", "p", "u", "t">>

kPath == <<"p", "a", "t", "h">>

kLanguage == <<"l", "a", "n", "g", "u", "a", "g", "e">>

kInvertY == <<"i", "n", "v", "e", "r", "t", "_", "y">>

DefaultGamePath == <<"/", "o", "p", "t", "/", "g", "a", "m", "e", "s", "/", "G", "r", "a", "n", "d", " ", "T", "h", "e", "f", "t", " ", "A", "u", "t", "o", " ", "3">>

DefaultLanguage == <<"a", "m", "e", "r", "i", "c", "a", "n">>

DefaultInvertY == FALSE

(***************************************************************************)
(* std::string helpers.  Positions are 1-based; 0 stands for npos.         *)
(***************************************************************************)
find_first_of(str, chars) ==
    IF \E i \in 1..Len(str) : str[i] \in chars
    THEN CHOOSE i \in 1..Len(str) :
            /\ str[i] \in chars
            /\ \A j \in 1..(i - 1) : str[j] \notin chars
    ELSE 0

find_last_not_of(str, chars) ==
    IF \E i \in 1..Len(str) : str[i] \notin chars
    THEN CHOOSE i \in 1..Len(str) :
            /\ str[i] \notin chars
            /\ \A j \in (i + 1)..Len(str) : str[j] \in chars
    ELSE 0

find_first_not_of(str, chars) ==
    IF \E i \in 1..Len(str) : str[i] \notin chars
    THEN CHOOSE i \in 1..Len(str) :
            /\ str[i] \notin chars
            /\ \A j \in 1..(i - 1) : str[j] \in chars
    ELSE 0

\* stripComments looking for ';' only
stripComments_SemicolonOnly(str) ==
    LET p == find_first_of(str, {";"})
        s == IF p = 0 THEN str ELSE SubSeq(str, 1, p - 1)
    IN  SubSeq(s, 1, find_last_not_of(s, StripSet))

\* std::string stripComments(const std::string &str)
stripComments(str) ==
    LET p == find_first_of(str, CommentChars)
        s == IF p = 0 THEN str ELSE SubSeq(str, 1, p - 1)
    IN  SubSeq(s, 1, find_last_not_of(s, StripSet))

(***************************************************************************)
(* std::stoi(str): skip leading white space, read an optional sign and the *)
(* longest run of decimal digits.  No digit: std::invalid_argument.  A     *)
(* value outside the range of int: std::out_of_range.                      *)
(***************************************************************************)
\* one digit more on a magnitude; "min" is the magnitude 2^31, which only a
\* negative number may have, "over" is anything larger
AccDigit(acc, d) ==
    IF acc.state # "fit" THEN [m |-> 0, state |-> "over"]
    ELSE IF acc.m <= (INT_MAX - d) \div 10
         THEN [m |-> acc.m * 10 + d, state |-> "fit"]
    ELSE IF acc.m = INT_MAX \div 10 /\ d = (INT_MAX % 10) + 1
         THEN [m |-> 0, state |-> "min"]
    ELSE [m |-> 0, state |-> "over"]

RECURSIVE AccDigits(_, _, _)
AccDigits(str, i, acc) ==
    IF i > Len(str) \/ str[i] \notin DigitSet THEN acc
    ELSE AccDigits(str, i + 1, AccDigit(acc, DigitVal(str[i])))

\* the value: the magnitude acc with the sign
StoiValue(neg, acc) ==
    IF acc.state = "fit"
    THEN [kind |-> "ok", val |-> IF neg THEN 0 - acc.m ELSE acc.m]
    ELSE IF acc.state = "min" /\ neg
    THEN [kind |-> "ok", val |-> (0 - INT_MAX) - 1]
    ELSE [kind |-> "out_of_range", val |-> 0]

\* the digits, expected at position d
StoiDigits(str, neg, d) ==
    IF d > Len(str) \/ str[d] \notin DigitSet
    THEN [kind |-> "invalid_argument", val |-> 0]
    ELSE StoiValue(neg, AccDigits(str, d, [m |-> 0, state |-> "fit"]))

\* the sign, expected at b, the first position that is not white space
StoiSign(str, b) ==
    IF b = 0 THEN [kind |-> "invalid_argument", val |-> 0]
    ELSE StoiDigits(str, str[b] = "-",
                    IF str[b] \in {"+", "-"} THEN b + 1 ELSE b)

stoi(str) == StoiSign(str, find_first_not_of(str, IsSpace))

(***************************************************************************)
(* The translators.  get_value yields a boost::optional: kind "some" with  *)
(* the value, kind "none", or kind "throw" when an exception leaves it.    *)
(***************************************************************************)
Some(v) == [kind |-> "some", v |-> v]

None == [kind |-> "none", v |-> FALSE]

Throw == [kind |-> "throw", v |-> FALSE]

StringTranslator_get_value(str) == Some(stripComments(str))

StringTranslator_put_value(str) == str

\* res = (stoi result) != 0; catch (std::invalid_argument &) only, so that
\* std::out_of_range leaves get_value
BoolOfStoi(r) ==
    IF r.kind = "ok" THEN Some(r.val # 0)
    ELSE IF r.kind = "invalid_argument" THEN None
    ELSE Throw

BoolTranslator_get_value(str) == BoolOfStoi(stoi(stripComments(str)))

\* put_value writing the words
BoolTranslator_put_value_Words(b) ==
    IF b THEN <<"t", "r", "u", "e">> ELSE <<"f", "a", "l", "s", "e">>

BoolTranslator_put_value(b) == IF b THEN <<"1">> ELSE <<"0">>

get_value(translator, str) ==
    IF translator = "boolt" THEN BoolTranslator_get_value(str)
    ELSE StringTranslator_get_value(str)

put_value(translator, v) ==
    IF translator = "boolt" THEN BoolTranslator_put_value(v)
    ELSE StringTranslator_put_value(v)

(***************************************************************************)
(* boost::property_tree as the INI parser uses it: keys before the first   *)
(* section header are children of the root (top), each section is a child  *)
(* of the root holding its keys (secs), both in insertion order.           *)
(***************************************************************************)
EmptyTree == [top |-> <<>>, secs |-> <<>>]

\* property_tree::detail::trim: std::isspace characters off both ends
trim(s) ==
    LET b == find_first_not_of(s, IsSpace)
    IN  IF b = 0 THEN <<>> ELSE SubSeq(s, b, find_last_not_of(s, IsSpace))

HasKey(kv, key) == \E i \in 1..Len(kv) : kv[i].key = key

HasSection(secs, name) == \E i \in 1..Len(secs) : secs[i].name = name

SectionIndex(secs, name) == CHOOSE i \in 1..Len(secs) : secs[i].name = name

KeyIndex(kv, key) == CHOOSE i \in 1..Len(kv) : kv[i].key = key

DropLast(s) == SubSeq(s, 1, Len(s) - 1)

\* "If the previous section was empty, drop it again."
DropEmptySection(st) ==
    IF st.insec /\ st.secs[Len(st.secs)].kv = <<>>
    THEN [st EXCEPT !.secs = DropLast(st.secs)]
    ELSE st

\* one pass of the read_ini loop body over a line; err is ini_parser_error
ReadLine(st0, raw) ==
    LET line == trim(raw) IN
    IF st0.err \/ line = <<>> \/ line[1] \in {";", "#"} THEN st0
    ELSE IF line[1] = "["
    THEN LET st == DropEmptySection(st0)
             end == find_first_of(line, {"]"})
             key == trim(SubSeq(line, 2, end - 1))
         IN  IF end = 0 THEN [st EXCEPT !.err = TRUE]
             ELSE IF HasKey(st.top, key) \/ HasSection(st.secs, key)
             THEN [st EXCEPT !.err = TRUE]
             ELSE [st EXCEPT !.secs = Append(@, [name |-> key, kv |-> <<>>]),
                             !.insec = TRUE]
    ELSE LET eqpos == find_first_of(line, {"="})
             key == trim(SubSeq(line, 1, eqpos - 1))
             data == trim(SubSeq(line, eqpos + 1, Len(line)))
             container == IF st0.insec THEN st0.secs[Len(st0.secs)].kv
                          ELSE st0.top
         IN  IF eqpos = 0 \/ eqpos = 1 THEN [st0 EXCEPT !.err = TRUE]
             ELSE IF HasKey(container, key) THEN [st0 EXCEPT !.err = TRUE]
             ELSE IF st0.insec
             THEN [st0 EXCEPT !.secs[Len(st0.secs)].kv =
                                  Append(@, [key |-> key, data |-> data])]
             ELSE [st0 EXCEPT !.top = Append(@, [key |-> key, data |-> data])]

RECURSIVE ReadLines(_, _, _)
ReadLines(lines, i, st) ==
    IF i > Len(lines) THEN st
    ELSE ReadLines(lines, i + 1, ReadLine(st, lines[i]))

\* what read_ini hands back from the state of its loop
ReadResult(st) == [err |-> st.err, tree |-> [top |-> st.top, secs |-> st.secs]]

\* pt::read_ini(stream, tree): [err, tree]
read_ini(lines) ==
    ReadResult(DropEmptySection(
                   ReadLines(lines, 1,
                       [top |-> <<>>, secs |-> <<>>, insec |-> FALSE,
                        err |-> FALSE])))

\* whether tree.get_child("sect.key") finds a node
TreeHas(tree, sect, key) ==
    /\ HasSection(tree.secs, sect)
    /\ HasKey(tree.secs[SectionIndex(tree.secs, sect)].kv, key)

\* the data of the node "sect.key"
TreeData(tree, sect, key) ==
    LET kv == tree.secs[SectionIndex(tree.secs, sect)].kv
    IN  kv[KeyIndex(kv, key)].data

\* tree.put("sect.key", data): the node is overwritten, or created last
TreePut(tree, sect, key, data) ==
    LET secs1 == IF HasSection(tree.secs, sect) THEN tree.secs
                 ELSE Append(tree.secs, [name |-> sect, kv |-> <<>>])
        s == SectionIndex(secs1, sect)
        kv == secs1[s].kv
        kv1 == IF HasKey(kv, key)
               THEN [kv EXCEPT ![KeyIndex(kv, key)].data = data]
               ELSE Append(kv, [key |-> key, data |-> data])
    IN  [tree EXCEPT !.secs = [secs1 EXCEPT ![s].kv = kv1]]

\* a key line without its '='
KeyLine_NoEquals(e) == e.key \o <<" ">> \o e.data

KeyLine(e) == e.key \o <<"=">> \o e.data

RECURSIVE WriteKeys(_, _)
WriteKeys(kv, i) ==
    IF i > Len(kv) THEN <<>>
    ELSE <<KeyLine(kv[i])>> \o WriteKeys(kv, i + 1)

RECURSIVE WriteSections(_, _)
WriteSections(secs, i) ==
    IF i > Len(secs) THEN <<>>
    ELSE <<(<<"[">> \o secs[i].name \o <<"]">>)>>
         \o WriteKeys(secs[i].kv, 1) \o WriteSections(secs, i + 1)

\* pt::write_ini(stream, tree): [err, lines]; a root child holding both
\* data and children is "mixed data and children"
write_ini(tree) ==
    IF \E i \in 1..Len(tree.secs) : HasKey(tree.top, tree.secs[i].name)
    THEN [err |-> TRUE, lines |-> <<>>]
    ELSE [err |-> FALSE,
          lines |-> WriteKeys(tree.top, 1) \o WriteSections(tree.secs, 1)]

(***************************************************************************)
(* The state: one file system entry (the configuration file), one          *)
(* GameConfig object, the value returned by the last call, and history     *)
(* variables recording what the properties below refer to.                 *)
(***************************************************************************)
VARIABLES
    file,            \* the configuration file: [exists, lines]
    phase,           \* "none", "constructed", or "thrown" (the constructor
                     \* was left by an exception and there is no object)
    m_configPath,
    m_valid,
    m_gamePath,
    m_gameLanguage,
    m_inputInvertY,
    ret,             \* last call: [op, ok, text]
    loaded,          \* history: the file and the members' values at the
                     \* moment the constructor started its load
    ctor,            \* history: isValid() and the fields right after the
                     \* constructor
    origin,          \* history: who wrote the file, and the fields of the
                     \* store that saved it
    cin,             \* CodecSpec: the text handed to a codec
    cout             \* CodecSpec: what the codecs made of it

vars == <<file, phase, m_configPath, m_valid, m_gamePath, m_gameLanguage,
          m_inputInvertY, ret, loaded, ctor, origin, cin, cout>>

storeVars == <<file, phase, m_configPath, m_valid, m_gamePath,
               m_gameLanguage, m_inputInvertY, ret, loaded, ctor, origin>>

NoFile == [exists |-> FALSE, lines |-> <<>>]

File(lines) == [exists |-> TRUE, lines |-> lines]

m_configName == <<"o", "p", "e", "n", "r", "w", ".", "i", "n", "i">>

\* the branch of getDefaultConfigPath for platforms other than Linux, the
\* BSDs and macOS, and the value after RW_ERROR on those
getDefaultConfigPath == <<".">>

getConfigFile(configPath) == configPath \o <<"/">> \o m_configName

\* the file a name denotes in the file system
FileNamed(name, fs, configPath) ==
    IF name = getConfigFile(configPath) THEN fs ELSE NoFile

Record(path, language, invert) ==
    [m_gamePath |-> path, m_gameLanguage |-> language,
     m_inputInvertY |-> invert]

(***************************************************************************)
(* parseConfig.  read_config is the lambda, applied to one field; st holds *)
(* what the lambda captures by reference (success, srcTree, the fields)    *)
(* and whether an exception is propagating.                                *)
(***************************************************************************)
\* the handler without its test of optional: every missing key defaults
OnBadPath_AlwaysDefault(optional, defaultValue) ==
    [kind |-> "value", v |-> defaultValue]

\* the handler failing for optional keys too
OnBadPath_AlwaysFail(optional, defaultValue) ==
    [kind |-> "return", v |-> defaultValue]

\* catch (pt::ptree_bad_path &): the key is missing
OnBadPath(optional, defaultValue) ==
    IF ~optional THEN [kind |-> "return", v |-> defaultValue]
    ELSE [kind |-> "value", v |-> defaultValue]

\* the handler falling back to the default as for a missing key
OnBadData_UseDefault(defaultValue) == [kind |-> "value", v |-> defaultValue]

\* catch (pt::ptree_bad_data &): the translator returned no value
OnBadData(defaultValue) == [kind |-> "return", v |-> defaultValue]

\* what srcTree.get makes of the translator's optional o
Translated(o, defaultValue) ==
    IF o.kind = "some" THEN [kind |-> "value", v |-> o.v]
    ELSE IF o.kind = "none" THEN OnBadData(defaultValue)
    ELSE [kind |-> "throw", v |-> defaultValue]

\* the switch on srcType: the value to transfer, an early return of the
\* lambda, or an exception that none of its handlers catches
SourceValue(st, sect, key, field, defaultValue, translator, optional, srcType) ==
    IF srcType = "DEFAULT" THEN [kind |-> "value", v |-> defaultValue]
    ELSE IF srcType = "CONFIG" THEN [kind |-> "value", v |-> st.rec[field]]
    ELSE IF ~TreeHas(st.tree, sect, key)
         THEN OnBadPath(optional, defaultValue)
    ELSE Translated(get_value(translator, TreeData(st.tree, sect, key)),
                    defaultValue)

\* the switch without its CONFIG case
DestApply_SkipConfig(st, field, sourceValue, destType) ==
    IF destType = "DEFAULT" THEN [st EXCEPT !.success = FALSE]
    ELSE st

\* the assignment moved out of the switch
DestApply_Always(st, field, sourceValue, destType) ==
    IF destType = "DEFAULT" THEN [st EXCEPT !.success = FALSE]
    ELSE [st EXCEPT !.rec[field] = sourceValue]

\* the switch on destType
DestApply(st, field, sourceValue, destType) ==
    IF destType = "DEFAULT" THEN [st EXCEPT !.success = FALSE]
    ELSE IF destType = "CONFIG" THEN [st EXCEPT !.rec[field] = sourceValue]
    ELSE st

\* the lambda from the point where the switch on srcType is left with sv
Transfer(st, sv, sect, key, field, translator, destType) ==
    IF sv.kind = "throw" THEN [st EXCEPT !.thrown = TRUE]
    ELSE IF sv.kind = "return" THEN [st EXCEPT !.success = FALSE]
    ELSE DestApply(
             [st EXCEPT !.tree = TreePut(@, sect, key,
                                         put_value(translator, sv.v))],
             field, sv.v, destType)

\* the lambda giving up once success is false
read_config_StopAfterFailure(st, sect, key, field, defaultValue, translator, optional, srcType, destType) ==
    IF st.thrown \/ ~st.success THEN st
    ELSE Transfer(st,
                  SourceValue(st, sect, key, field, defaultValue, translator,
                              optional, srcType),
                  sect, key, field, translator, destType)

read_config(st, sect, key, field, defaultValue, translator, optional, srcType, destType) ==
    IF st.thrown THEN st
    ELSE Transfer(st,
                  SourceValue(st, sect, key, field, defaultValue, translator,
                              optional, srcType),
                  sect, key, field, translator, destType)

\* the three read_config calls, in their order
ReadFields(st, srcType, destType) ==
    read_config(
        read_config(
            read_config(st, kGame, kPath, "m_gamePath", DefaultGamePath,
                        "deft", FALSE, srcType, destType),
            kGame, kLanguage, "m_gameLanguage", DefaultLanguage, "deft",
            TRUE, srcType, destType),
        kInput, kInvertY, "m_inputInvertY", DefaultInvertY, "boolt", TRUE,
        srcType, destType)

\* read_ini from a stream: one that failed to open is not good(), and no
\* line is read
ReadStream(f) ==
    IF f.exists THEN read_ini(f.lines)
    ELSE [err |-> FALSE, tree |-> EmptyTree]

\* read_ini(const std::string &filename, ...): "cannot open file"
ReadNamed(f) ==
    IF f.exists THEN read_ini(f.lines)
    ELSE [err |-> TRUE, tree |-> EmptyTree]

\* the first try block: the source tree, or ini_parser_error
ReadSource(srcType, source, fs, configPath) ==
    IF srcType = "STRING" THEN ReadNamed(FileNamed(source, fs, configPath))
    ELSE IF srcType = "FILE"
    THEN ReadStream(FileNamed(source, fs, configPath))
    ELSE [err |-> FALSE, tree |-> EmptyTree]

\* the outcome of write_ini at the destination
Written(destType, w, canOpen) ==
    IF destType = "STRING"
    THEN [success |-> ~w.err, written |-> ~w.err, lines |-> w.lines]
    ELSE IF destType = "FILE"
    THEN [success |-> canOpen /\ ~w.err, written |-> canOpen /\ ~w.err,
          lines |-> w.lines]
    ELSE [success |-> TRUE, written |-> FALSE, lines |-> <<>>]

\* the last try block: [success, written, lines]; canOpen tells whether the
\* file system lets write_ini open the destination file
WriteDest(destType, tree, canOpen) ==
    Written(destType, write_ini(tree), canOpen)

\* the end of parseConfig, st being the state the read_config calls left
Finish(st, w) ==
    IF st.thrown
    THEN [ret |-> "throw", rec |-> st.rec, written |-> FALSE, lines |-> <<>>]
    ELSE IF ~st.success
    THEN [ret |-> "false", rec |-> st.rec, written |-> FALSE, lines |-> <<>>]
    ELSE [ret |-> IF w.success THEN "true" ELSE "false", rec |-> st.rec,
          written |-> w.written, lines |-> w.lines]

\* parseConfig once read_config has been applied to the three fields
AfterFields(st, destType, canOpen) ==
    Finish(st, WriteDest(destType, st.tree, canOpen))

\* parseConfig once the source has been read
AfterSource(src, srcType, destType, rec, canOpen) ==
    IF src.err \/ destType = "DEFAULT"
    THEN [ret |-> "false", rec |-> rec, written |-> FALSE, lines |-> <<>>]
    ELSE AfterFields(
             ReadFields([success |-> TRUE, tree |-> src.tree, rec |-> rec,
                         thrown |-> FALSE], srcType, destType),
             destType, canOpen)

\* bool parseConfig(srcType, source, destType, destination), as
\* [ret, rec, written, lines]: ret is "true", "false" or "throw", rec the
\* fields afterwards, lines what was written to the destination if written
parseConfig(srcType, source, destType, fs, configPath, rec, canOpen) ==
    AfterSource(ReadSource(srcType, source, fs, configPath), srcType,
                destType, rec, canOpen)

(***************************************************************************)
(* The texts the configuration file and the codecs are tried on.           *)
(***************************************************************************)
vData == <<"/", "d", "a", "t", "a", "/", "g", "a", "m", "e", "s", "/", "g", "t", "a", "3">>

vDataC == <<"/", "d", "a", "t", "a", "/", "g", "a", "m", "e", "s", "/", "g", "t", "a", "3", " ", ";", " ", "m", "y", " ", "c", "o", "p", "y">>

vDataSp == <<"p", "a", "t", "h", " ", "=", " ", "/", "d", "a", "t", "a", " ", "#", "2", " ">>

vAmericanC == <<"a", "m", "e", "r", "i", "c", "a", "n", " ", ";", " ", "d", "e", "f", "a", "u", "l", "t">>

vFrench == <<"f", "r", "e", "n", "c", "h">>

vYes == <<"y", "e", "s">>

vBig == <<"9", "9", "9", "9", "9", "9", "9", "9", "9", "9", "9">>

vMinus1 == <<"-", "1">>

vOneC == <<"1", " ", "#", " ", "o", "n">>

vIntMax == <<"2", "1", "4", "7", "4", "8", "3", "6", "4", "7">>

vIntMaxP1 == <<"2", "1", "4", "7", "4", "8", "3", "6", "4", "8">>

vIntMin == <<"-", "2", "1", "4", "7", "4", "8", "3", "6", "4", "8">>

vIntMinM1 == <<"-", "2", "1", "4", "7", "4", "8", "3", "6", "4", "9">>

lJunk == <<"j", "u", "n", "k">>

lPathX == <<"p", "a", "t", "h", "=", "/", "x">>

lGame == <<"[", "g", "a", "m", "e", "]">>

lInput == <<"[", "i", "n", "p", "u", "t", "]">>

Line(key, value) == key \o <<"=">> \o value

\* zero or one line each; vDataSp is a whole line, with blanks around '='
\* and a comment after the value
PathChoices ==
    {<<>>, <<Line(kPath, vData)>>, <<vDataSp>>}

LanguageChoices ==
    {<<>>, <<Line(kLanguage, vAmericanC)>>, <<Line(kLanguage, vFrench)>>}

\* a line without '=' and a second game.path are ini_parser_errors
ExtraChoices == {<<>>, <<lJunk>>, <<lPathX>>}

InvertChoices ==
    {<<>>} \cup
    {<<Line(kInvertY, v)>> :
        v \in {<<"0">>, vMinus1, vOneC, vYes, vBig}}

InputFiles ==
    {NoFile} \cup
    {File(<<lGame>> \o p \o l \o x \o <<lInput>> \o i) :
        p \in PathChoices, l \in LanguageChoices, x \in ExtraChoices,
        i \in InvertChoices}

\* m_gamePath and m_gameLanguage are declared in GameConfig.hpp and are not
\* in the constructor's initializer list: before the load each is empty, or
\* holds the field's default if its declaration has an initializer
UnsetGamePath == {<<>>, DefaultGamePath}

UnsetGameLanguage == {<<>>, DefaultLanguage}

CodecAlphabet == {"a", " ", "\t", ";", "#", "1", "0", "-"}

CodecInputs ==
    UNION {[1..n -> CodecAlphabet] : n \in 0..MaxLen}
    \cup {vAmericanC, vDataC, vOneC, vYes, vBig, vIntMax, vIntMaxP1,
          vIntMin, vIntMinM1, <<"2">>, <<" ", "+", "7", "x">>,
          <<"f", "r", "\r", "\n">>, <<"1", "\f">>}

(***************************************************************************)
(* The operations of GameConfig.                                           *)
(***************************************************************************)
CurrentRecord == Record(m_gamePath, m_gameLanguage, m_inputInvertY)

NoRet == [op |-> "none", ok |-> "none", text |-> <<>>]

NoCodec == [op |-> "none", arg |-> FALSE, kind |-> "none", text |-> <<>>,
            b |-> FALSE]

Init ==
    /\ file \in InputFiles
    /\ phase = "none"
    /\ m_configPath = <<>>
    /\ m_valid = FALSE
    /\ m_gamePath = <<>>
    /\ m_gameLanguage = <<>>
    /\ m_inputInvertY = FALSE
    /\ ret = NoRet
    /\ loaded = [file |-> NoFile, pre |-> Record(<<>>, <<>>, FALSE)]
    /\ ctor = [valid |-> FALSE, rec |-> Record(<<>>, <<>>, FALSE)]
    /\ origin = [kind |-> "input", valid |-> FALSE,
                 rec |-> Record(<<>>, <<>>, FALSE)]
    /\ cin = <<>>
    /\ cout = NoCodec

\* if (m_configPath.empty()) m_configPath = getDefaultConfigPath();
ResolvedPath(configPath) ==
    IF configPath = <<>> THEN getDefaultConfigPath ELSE configPath

\* GameConfig::GameConfig(configName, configPath): a new object; the one
\* there was, if any, is no longer looked at
Construct(configPath, unsetPath, unsetLanguage) ==
    \E r \in {parseConfig("FILE", getConfigFile(ResolvedPath(configPath)),
                          "CONFIG", file, ResolvedPath(configPath),
                          Record(unsetPath, unsetLanguage, FALSE), TRUE)} :
        /\ m_configPath' = ResolvedPath(configPath)
        /\ m_valid' = (r.ret = "true")
        /\ m_gamePath' = r.rec.m_gamePath
        /\ m_gameLanguage' = r.rec.m_gameLanguage
        /\ m_inputInvertY' = r.rec.m_inputInvertY
        /\ phase' = IF r.ret = "throw" THEN "thrown" ELSE "constructed"
        /\ ret' = [op |-> "construct", ok |-> r.ret, text |-> <<>>]
        /\ loaded' = [file |-> file,
                      pre |-> Record(unsetPath, unsetLanguage, FALSE)]
        /\ ctor' = [valid |-> r.ret = "true", rec |-> r.rec]
        /\ UNCHANGED <<file, origin, cin, cout>>

isValid == m_valid

\* bool GameConfig::saveConfig()
saveConfig(canOpen) ==
    /\ phase = "constructed"
    /\ \E r \in {parseConfig("CONFIG", <<>>, "FILE", file, m_configPath,
                             CurrentRecord, canOpen)} :
        /\ m_gamePath' = r.rec.m_gamePath
        /\ m_gameLanguage' = r.rec.m_gameLanguage
        /\ m_inputInvertY' = r.rec.m_inputInvertY
        /\ file' = IF r.written THEN File(r.lines) ELSE file
        /\ origin' = IF r.written
                     THEN [kind |-> "save", valid |-> m_valid,
                           rec |-> CurrentRecord]
                     ELSE origin
        /\ ret' = [op |-> "save", ok |-> r.ret, text |-> <<>>]
    /\ UNCHANGED <<phase, m_configPath, m_valid, loaded, ctor, cin, cout>>

\* std::string GameConfig::getDefaultINIString()
getDefaultINIString ==
    /\ phase = "constructed"
    /\ \E r \in {parseConfig("DEFAULT", <<>>, "STRING", file, m_configPath,
                             CurrentRecord, TRUE)} :
        /\ m_gamePath' = r.rec.m_gamePath
        /\ m_gameLanguage' = r.rec.m_gameLanguage
        /\ m_inputInvertY' = r.rec.m_inputInvertY
        /\ ret' = [op |-> "default", ok |-> r.ret,
                   text |-> IF r.written THEN r.lines ELSE <<>>]
    /\ UNCHANGED <<file, phase, m_configPath, m_valid, loaded, ctor, origin,
                   cin, cout>>

\* the caller seeds the configuration file with the text it was just given
SeedFile ==
    /\ ret.op = "default"
    /\ file # File(ret.text)
    /\ file' = File(ret.text)
    /\ origin' = [kind |-> "seed", valid |-> origin.valid,
                  rec |-> origin.rec]
    /\ UNCHANGED <<phase, m_configPath, m_valid, m_gamePath, m_gameLanguage,
                   m_inputInvertY, ret, loaded, ctor, cin, cout>>

ConstructStep ==
    \E configPath \in {<<>>, <<".">>}, p \in UnsetGamePath,
       l \in UnsetGameLanguage : Construct(configPath, p, l)

SaveStep == \E canOpen \in BOOLEAN : saveConfig(canOpen)

Next ==
    \/ ConstructStep
    \/ SaveStep
    \/ getDefaultINIString
    \/ SeedFile

Spec == Init /\ [][Next]_vars

(***************************************************************************)
(* The codecs on their own: a text is chosen, and the translators are      *)
(* applied to it.                                                          *)
(***************************************************************************)
CodecInit ==
    /\ cin \in CodecInputs
    /\ cout = NoCodec
    /\ file = NoFile
    /\ phase = "none"
    /\ m_configPath = <<>>
    /\ m_valid = FALSE
    /\ m_gamePath = <<>>
    /\ m_gameLanguage = <<>>
    /\ m_inputInvertY = FALSE
    /\ ret = NoRet
    /\ loaded = [file |-> NoFile, pre |-> Record(<<>>, <<>>, FALSE)]
    /\ ctor = [valid |-> FALSE, rec |-> Record(<<>>, <<>>, FALSE)]
    /\ origin = [kind |-> "input", valid |-> FALSE,
                 rec |-> Record(<<>>, <<>>, FALSE)]

StringGet ==
    LET o == StringTranslator_get_value(cin)
    IN  /\ cout' = [op |-> "string_get", arg |-> FALSE, kind |-> o.kind,
                    text |-> o.v, b |-> FALSE]
        /\ UNCHANGED <<cin, storeVars>>

StringPut ==
    /\ cout' = [op |-> "string_put", arg |-> FALSE, kind |-> "some",
                text |-> StringTranslator_put_value(cin), b |-> FALSE]
    /\ UNCHANGED <<cin, storeVars>>

BoolGet ==
    LET o == BoolTranslator_get_value(cin)
    IN  /\ cout' = [op |-> "bool_get", arg |-> FALSE, kind |-> o.kind,
                    text |-> <<>>, b |-> o.v]
        /\ UNCHANGED <<cin, storeVars>>

\* put_value(b), and get_value of what it returned
BoolPut(b) ==
    LET t == BoolTranslator_put_value(b)
        o == BoolTranslator_get_value(t)
    IN  /\ cout' = [op |-> "bool_put", arg |-> b, kind |-> o.kind,
                    text |-> t, b |-> o.v]
        /\ UNCHANGED <<cin, storeVars>>

BoolPutStep == \E b \in BOOLEAN : BoolPut(b)

CodecNext ==
    \/ StringGet
    \/ StringPut
    \/ BoolGet
    \/ BoolPutStep

CodecSpec == CodecInit /\ [][CodecNext]_vars

(***************************************************************************)
(* Vocabulary of the properties.                                           *)
(***************************************************************************)
\* the source the current store was loaded from, as the INI reader saw it
SourceDoc ==
    IF loaded.file.exists THEN read_ini(loaded.file.lines)
    ELSE [err |-> FALSE, tree |-> EmptyTree]

SrcParsed == ~SourceDoc.err

SrcHas(sect, key) == SrcParsed /\ TreeHas(SourceDoc.tree, sect, key)

SrcRaw(sect, key) == TreeData(SourceDoc.tree, sect, key)

\* r is s cut before its first ';' or '#', without the white space at the
\* end of what was kept
IsStrippedOf(r, s) ==
    LET cut == IF \E i \in 1..Len(s) : s[i] \in {";", "#"}
               THEN CHOOSE i \in 1..Len(s) :
                        /\ s[i] \in {";", "#"}
                        /\ \A j \in 1..(i - 1) : s[j] \notin {";", "#"}
               ELSE Len(s) + 1
    IN  /\ Len(r) < cut
        /\ r = SubSeq(s, 1, Len(r))
        /\ r # <<>> => r[Len(r)] \notin {" ", "\t", "\r", "\n"}
        /\ \A i \in (Len(r) + 1)..(cut - 1) : s[i] \in {" ", "\t", "\r", "\n"}

\* t is an optional sign followed by decimal digits and nothing else
IsIntegerText(t) ==
    LET d == IF t # <<>> /\ t[1] \in {"+", "-"} THEN 2 ELSE 1
    IN  /\ d <= Len(t)
        /\ \A i \in d..Len(t) : t[i] \in DigitSet

NonZeroText(t) == \E i \in 1..Len(t) : t[i] \in DigitSet \ {"0"}

\* t does not start, after white space and one sign, with a digit
NonNumericText(t) ==
    LET b == find_first_not_of(t, IsSpace)
        d == IF b # 0 /\ t[b] \in {"+", "-"} THEN b + 1 ELSE b
    IN  b = 0 \/ d > Len(t) \/ t[d] \notin DigitSet

\* the value a text has as a boolean, for a text with an integer in front
TextTruth(t) ==
    LET b == find_first_not_of(t, IsSpace)
        d == IF t[b] \in {"+", "-"} THEN b + 1 ELSE b
        z == find_first_not_of(SubSeq(t, d, Len(t)), {"0"})
    IN  z # 0 /\ t[d + z - 1] \in DigitSet

\* the text IsStrippedOf singles out
Stripped(s) ==
    CHOOSE r \in {SubSeq(s, 1, n) : n \in 0..Len(s)} : IsStrippedOf(r, s)

ExpectedPath == Stripped(SrcRaw(kGame, kPath))

ExpectedLanguage ==
    IF SrcHas(kGame, kLanguage) THEN Stripped(SrcRaw(kGame, kLanguage))
    ELSE DefaultLanguage

InvertText == Stripped(SrcRaw(kInput, kInvertY))

ExpectedInvertY ==
    IF SrcHas(kInput, kInvertY) THEN TextTruth(InvertText) ELSE FALSE

\* the lines of a file that holds the three recognized keys
SavedLines(path, language, invert) ==
    << <<"[", "g", "a", "m", "e", "]">>,
       <<"p", "a", "t", "h", "=">> \o path,
       <<"l", "a", "n", "g", "u", "a", "g", "e", "=">> \o language,
       <<"[", "i", "n", "p", "u", "t", "]">>,
       <<"i", "n", "v", "e", "r", "t", "_", "y", "=">>
           \o (IF invert THEN <<"1">> ELSE <<"0">>) >>

(***************************************************************************)
(* Properties of the store (specification Spec).                           *)
(***************************************************************************)
\* C1: when the load of the constructor returns success, game.path is
\* present in the source and gamePath is its decoded value, and each optional
\* field holds the decoded value of its key if the source has the key and
\* its declared default otherwise.
C1_SuccessfulLoad ==
    (ret.op = "construct" /\ ret.ok = "true") =>
        /\ SrcHas(kGame, kPath)
        /\ m_gamePath = ExpectedPath
        /\ m_gameLanguage = ExpectedLanguage
        /\ m_inputInvertY = ExpectedInvertY

C1_Witness ==
    /\ ret.op = "construct" /\ ret.ok = "true"
    /\ ~SrcHas(kGame, kLanguage)
    /\ SrcHas(kInput, kInvertY)
    /\ m_inputInvertY
    /\ loaded.pre.m_gamePath = DefaultGamePath
    /\ m_gamePath = <<"/", "d", "a", "t", "a">>

C3_MissingOptionalSaved ==
    (phase = "constructed" /\ SrcParsed) =>
        /\ ~SrcHas(kGame, kLanguage) =>
              /\ m_gameLanguage = DefaultLanguage
              /\ (ret.op = "save" /\ ret.ok = "true") =>
                    file = File(SavedLines(m_gamePath, DefaultLanguage,
                                           m_inputInvertY))
        /\ ~SrcHas(kInput, kInvertY) =>
              /\ m_inputInvertY = FALSE
              /\ (ret.op = "save" /\ ret.ok = "true") =>
                    file = File(SavedLines(m_gamePath, m_gameLanguage,
                                           FALSE))

C3_Witness ==
    /\ phase = "constructed" /\ SrcParsed
    /\ loaded.file.exists
    /\ ~SrcHas(kGame, kLanguage) /\ ~SrcHas(kInput, kInvertY)
    /\ loaded.pre.m_gameLanguage = <<>>
    /\ ret.op = "save" /\ ret.ok = "true"
    /\ file = File(SavedLines(<<"/", "d", "a", "t", "a">>, DefaultLanguage,
                              FALSE))

\* C4: with game.path present, a source whose input.invert_y is not a
\* number makes the load fail, and a source without input.invert_y loads
\* with invertInputY false.
C4_NonNumericInvertFails ==
    (ret.op = "construct" /\ SrcHas(kGame, kPath)) =>
        /\ (SrcHas(kInput, kInvertY) /\ NonNumericText(InvertText)) =>
              (ret.ok = "false" /\ ~isValid)
        /\ ~SrcHas(kInput, kInvertY) =>
              (ret.ok = "true" /\ isValid /\ m_inputInvertY = FALSE)

C4_Witness ==
    /\ ret.op = "construct" /\ SrcHas(kGame, kPath)
    /\ SrcHas(kInput, kInvertY)
    /\ SrcRaw(kInput, kInvertY) = <<"y", "e", "s">>
    /\ ret.ok = "false" /\ ~isValid

\* C5: a store constructed on a file holding the text getDefaultINIString
\* returned is valid and has every field at its declared default.
C5_DefaultRoundTrip ==
    (ret.op = "construct" /\ origin.kind = "seed") =>
        /\ ret.ok = "true" /\ isValid
        /\ m_gamePath = DefaultGamePath
        /\ m_gameLanguage = DefaultLanguage
        /\ m_inputInvertY = FALSE

C5_Witness ==
    /\ ret.op = "construct" /\ origin.kind = "seed"
    /\ loaded.pre.m_gamePath = <<>> /\ loaded.pre.m_gameLanguage = <<>>
    /\ isValid
    /\ m_gamePath = DefaultGamePath

\* C8: after the constructor, whatever saveConfig() and
\* getDefaultINIString() calls were made and whatever they returned,
\* isValid() and the three fields are what they were right after the
\* constructor.
C8_OnlyLoadMutates ==
    phase = "constructed" =>
        /\ isValid = ctor.valid
        /\ CurrentRecord = ctor.rec

C8_Witness ==
    /\ phase = "constructed"
    /\ ret.op = "default"
    /\ origin.kind = "save"
    /\ ~isValid
    /\ m_gameLanguage = <<"f", "r", "e", "n", "c", "h">>

C6_StringCodec ==
    /\ cout.op = "string_get" =>
          (cout.kind = "some" /\ IsStrippedOf(cout.text, cin))
    /\ cout.op = "string_put" => cout.text = cin

C6_Witness ==
    /\ cout.op = "string_get"
    /\ cin = <<"a", "m", "e", "r", "i", "c", "a", "n", " ", ";", " ", "d", "e", "f", "a", "u", "l", "t">>
    /\ cout.text = <<"a", "m", "e", "r", "i", "c", "a", "n">>

\* C7: the boolean codec decodes every text that, comments stripped, is an
\* integer to true when the integer is not zero and to false when it is,
\* decodes a text that is no number to "absent", encodes true as "1" and
\* false as "0", and decodes what it encoded to the value encoded.
C7_BoolCodec ==
    /\ cout.op = "bool_get" =>
          /\ IsIntegerText(Stripped(cin)) =>
                (cout.kind = "some" /\ cout.b = NonZeroText(Stripped(cin)))
          /\ NonNumericText(Stripped(cin)) => cout.kind = "none"
    /\ cout.op = "bool_put" =>
          /\ cout.text = (IF cout.arg THEN <<"1">> ELSE <<"0">>)
          /\ cout.kind = "some" /\ cout.b = cout.arg

====
